---- MODULE Spec2Model ----
(***************************************************************************)
(* A model of the notebooks of the repository.  Every notebook is a        *)
(* linear script of cells; a notebook is modelled as a state machine whose *)
(* program counter names the next cell (or the next statement of a loop    *)
(* body), and whose variables are the notebook's global names.             *)
(*                                                                         *)
(*   SpecBM25      simple-search-engine-with-bm25.ipynb                    *)
(*   SpecSemantic  the semantic search notebook (src/unnamed/part_002)     *)
(*   SpecHtml      text_from_html / tag_visible on small pages             *)
(*   SpecTruncate  classifier / summarise on texts around 1024 characters  *)
(*   Spec          article-ranking-with-an-nli-model.ipynb, any feed       *)
(*   SpecRecent    the same notebook on feeds of recent entries            *)
(*   SpecDataset   NLIDataset of the NLI fine-tuning notebook              *)
(*   SpecTrain     the training cell of the NLI fine-tuning notebook       *)
(*   SpecEval      the evaluation cell of the NLI fine-tuning notebook     *)
(*                                                                         *)
(* Calls into third-party libraries (feedparser, rank_bm25, nltk, numpy)   *)
(* are modelled by their documented results; what a remote service or a    *)
(* model returns is an input drawn from a small set.                       *)
(***************************************************************************)
EXTENDS Integers, Sequences, FiniteSets, TLC

VARIABLES
    \* ---- simple-search-engine-with-bm25.ipynb
    bm_pc,            \* the next cell of the BM25 notebook
    feed_entries,     \* feed.entries
    tokenized_docs,   \* tokenized_docs
    raw_scores,       \* bm25.get_scores(query): the array get_bm25_scores sorts
    scores,           \* scores (the sorted list of (index, score) pairs)
    idx,              \* idx
    final_scores,     \* final_scores
    documents,        \* documents
    bm_printed,       \* what the print cell wrote
    \* ---- the semantic search notebook (src/unnamed/part_002)
    sem_pc,           \* the next cell of the semantic search notebook
    sem_src_text,     \* src_text
    input_text,       \* input_text
    results,          \* results
    sem_ranked,       \* num_results once the ranking cell has rebound it
    sem_scores,       \* scores
    sentences,        \* sentences
    sem_printed,      \* what the print cell wrote
    \* ---- text_from_html applied to a page
    html_pc,          \* "call" before the call, "done" after it
    html_page,        \* the argument: the strings of the parsed page
    html_text,        \* the string text_from_html returned
    \* ---- classifier and summarise applied to a source text
    tr_pc,            \* "call" before the call, then the function called
    tr_source_text,   \* the argument source_text
    tr_model_input,   \* src_text, the text handed to the pipeline
    \* ---- article-ranking-with-an-nli-model.ipynb
    art_pc,           \* the next cell, or the next statement of a loop body
    art_error,        \* the call that raised, once art_pc is "failed"
    tz_offset,        \* the kernel's local time minus UTC, in seconds
    served_feed,      \* the entries the feed URL serves
    newsfeed,         \* newsfeed.entries
    checked_at,       \* time.time() when the filter tested each entry
    entries,          \* entries
    loop_i,           \* position of the loop's current entry in entries
    html,             \* html
    src_text,         \* src_text
    classification,   \* classification["scores"][0]
    article,          \* article, the dict the loop body builds
    articles,         \* articles
    sorted_articles,  \* sorted_articles
    disp_i,           \* position of the display loop in its slice
    displayed,        \* what printmd displayed, in order
    ext_calls,        \* the external calls made so far, in order, each with
                      \* the link of the entry it was made for
    \* ---- the NLI fine-tuning notebook: NLIDataset
    ds_pc,            \* "built" after the constructor, then "ready", "got"
    ds_encodings,     \* self.encodings
    ds_labels,        \* self.labels
    ds_len,           \* what len(dataset) returned
    ds_idx,           \* the idx given to __getitem__
    ds_item,          \* what dataset[idx] returned
    \* ---- the NLI fine-tuning notebook: the training cell
    fit_pc,           \* the next statement of the training cell
    fit_n,            \* len(train_dataset)
    fit_epochs_done,  \* the epochs completed; epoch, while one is running
    fit_order,        \* the order the loader's sampler drew for this epoch
    fit_seen,         \* the batches of this epoch the loop body has finished
    fit_batch,        \* batch
    fit_steps,        \* what the loop body has done for batch so far
    fit_loss,         \* loss
    all_losses,       \* all_losses
    optim_steps,      \* how often optim.step() has been called
    fit_printed,      \* the mean losses printed, as <<sum, count>>
    \* ---- the NLI fine-tuning notebook: the evaluation cell
    ev_pc,            \* the next statement of the evaluation cell
    val_labels,       \* val_labels: the label of each validation example
    ev_model,         \* the class the trained model gives each example
    ev_order,         \* the order val_loader's sampler drew
    ev_i,             \* the batches the loop has finished
    eval_preds,       \* eval_preds
    eval_labels,      \* eval_labels
    ev_printed        \* the accuracy computed and the number printed

bmVars == <<bm_pc, feed_entries, tokenized_docs, raw_scores, scores, idx,
            final_scores, documents, bm_printed>>

semVars == <<sem_pc, sem_src_text, input_text, results, sem_ranked, sem_scores,
             sentences, sem_printed>>

htmlVars == <<html_pc, html_page, html_text>>

trVars == <<tr_pc, tr_source_text, tr_model_input>>

artVars == <<art_pc, art_error, tz_offset, served_feed, newsfeed, checked_at,
             entries, loop_i, html, src_text, classification, article,
             articles, sorted_articles, disp_i, displayed, ext_calls>>

dsVars == <<ds_pc, ds_encodings, ds_labels, ds_len, ds_idx, ds_item>>

fitVars == <<fit_pc, fit_n, fit_epochs_done, fit_order, fit_seen, fit_batch,
             fit_steps, fit_loss, all_losses, optim_steps, fit_printed>>

evVars == <<ev_pc, val_labels, ev_model, ev_order, ev_i, eval_preds,
            eval_labels, ev_printed>>

nliVars == <<dsVars, fitVars, evVars>>

\* what a cell of the NLI notebook leaves alone
notDs == <<fitVars, evVars>>
notFit == <<dsVars, evVars>>
notEv == <<dsVars, fitVars>>

vars == <<bmVars, semVars, htmlVars, trVars, artVars, nliVars>>

\* what a notebook leaves alone: the other notebooks
notBm == <<semVars, htmlVars, trVars, artVars, nliVars>>
notSem == <<bmVars, htmlVars, trVars, artVars, nliVars>>
notHtml == <<bmVars, semVars, trVars, artVars, nliVars>>
notTr == <<bmVars, semVars, htmlVars, artVars, nliVars>>
notArt == <<bmVars, semVars, htmlVars, trVars, nliVars>>
notNli == <<bmVars, semVars, htmlVars, trVars, artVars>>

----------------------------------------------------------------------------
(* Bounds of the model *)

\* the largest number of entries the arXiv feed returns in the model
MaxDocs == 6
\* BM25 scores are the integers 0..MaxScore (finite, totally ordered)
MaxScore == 2
\* the largest number of full stops in the text of the searched page
MaxDots == 5
\* cosine similarities are the levels 0..MaxSim
MaxSim == 1
\* the largest number of strings of a page given to text_from_html
MaxNodes == 3
\* the longest source text given to classifier and summarise
MaxTextLen == 1030
\* the largest number of entries the news feed serves
MaxEntries == 3
\* the largest number of entries of a feed of recent entries only
MaxRecent == 5
\* relevancy scores are the levels 0..MaxRelevancy
MaxRelevancy == 1
\* the largest number of examples of an NLIDataset
MaxExamples == 3
\* the examples a DataLoader puts in one batch (16 in the notebook: the
\* model's loaders make smaller batches of smaller datasets)
BatchSize == 2
\* the largest number of training examples
MaxTrain == 3
\* the loss of a batch is one of the levels 0..MaxLoss
MaxLoss == 1
\* the largest number of validation examples
MaxVal == 3

----------------------------------------------------------------------------
(* Helpers *)

Min(a, b) == IF a <= b THEN a ELSE b

\* s[:k] of Python for k >= 0
Take(s, k) == SubSeq(s, 1, Min(k, Len(s)))

Range(s) == {s[j] : j \in 1..Len(s)}

\* s[::-1]
Reverse(s) == [j \in 1..Len(s) |-> s[Len(s) + 1 - j]]

\* s[-k:] of Python for k >= 0: the last k elements, and the whole of s for
\* k = 0, since -0 is 0
LastK(s, k) ==
    IF k = 0 THEN s ELSE SubSeq(s, Len(s) - Min(k, Len(s)) + 1, Len(s))

\* A string is a sequence of characters.
Chars(c, n) == [j \in 1..n |-> c]

\* str.strip(): leading and trailing white space removed
Strip(s) ==
    LET ink == {j \in 1..Len(s) : s[j] # " "}
    IN  IF ink = {} THEN <<>>
        ELSE SubSeq(s, CHOOSE j \in ink : \A k \in ink : j <= k,
                       CHOOSE j \in ink : \A k \in ink : j >= k)

\* sep.join(parts)
RECURSIVE Join(_, _)
Join(sep, parts) ==
    IF parts = <<>> THEN <<>>
    ELSE IF Len(parts) = 1 THEN parts[1]
    ELSE parts[1] \o sep \o Join(sep, Tail(parts))

\* s.split(c): the pieces between the occurrences of c, always at least one
RECURSIVE Split(_, _)
Split(s, c) ==
    LET at == {j \in 1..Len(s) : s[j] = c}
    IN  IF at = {} THEN <<s>>
        ELSE LET k == CHOOSE j \in at : \A m \in at : j <= m
             IN  <<SubSeq(s, 1, k - 1)>> \o Split(SubSeq(s, k + 1, Len(s)), c)

\* whether needle occurs in hay (needle in hay, for strings)
Contains(hay, needle) ==
    \E j \in 0..(Len(hay) - Len(needle)) :
        SubSeq(hay, j + 1, j + Len(needle)) = needle

----------------------------------------------------------------------------
(* The notebooks before their first cell *)

BmFresh ==
    /\ feed_entries = <<>>
    /\ feed_entries = <<>>
    /\ tokenized_docs = <<>>
    /\ raw_scores = <<>>
    /\ scores = <<>>
    /\ idx = <<>>
    /\ final_scores = <<>>
    /\ documents = <<>>
    /\ bm_printed = <<>>

\* the notebook before its first cell runs, and the notebook not run at all
BmStart == bm_pc = "feed" /\ BmFresh
BmOff == bm_pc = "off" /\ BmFresh

SemFresh ==
    /\ sem_src_text = <<>>
    /\ input_text = <<>>
    /\ results = <<>>
    /\ sem_ranked = <<>>
    /\ sem_scores = <<>>
    /\ sentences = <<>>
    /\ sem_printed = <<>>

SemStart == sem_pc = "fetch" /\ SemFresh
SemOff == sem_pc = "off" /\ SemFresh

HtmlOff ==
    /\ html_pc = "off"
    /\ html_page = <<>>
    /\ html_text = <<>>

TrOff ==
    /\ tr_pc = "off"
    /\ tr_source_text = <<>>
    /\ tr_model_input = <<>>

\* the article ranking notebook before its first cell, but for its
\* surroundings tz_offset and served_feed
ArtFresh ==
    /\ art_error = "none"
    /\ newsfeed = <<>>
    /\ checked_at = <<>>
    /\ entries = <<>>
    /\ loop_i = 0
    /\ html = <<>>
    /\ src_text = <<>>
    /\ classification = 0
    /\ article = <<>>
    /\ articles = <<>>
    /\ sorted_articles = <<>>
    /\ disp_i = 0
    /\ displayed = <<>>
    /\ ext_calls = <<>>

ArtOff ==
    /\ art_pc = "off"
    /\ tz_offset = 0
    /\ served_feed = <<>>
    /\ ArtFresh

DsOff ==
    /\ ds_pc = "off"
    /\ ds_encodings = <<>>
    /\ ds_labels = <<>>
    /\ ds_len = 0
    /\ ds_idx = 0
    /\ ds_item = <<>>

FitFresh ==
    /\ fit_epochs_done = 0
    /\ fit_order = <<>>
    /\ fit_seen = <<>>
    /\ fit_batch = <<>>
    /\ fit_steps = <<>>
    /\ fit_loss = 0
    /\ all_losses = <<>>
    /\ optim_steps = 0
    /\ fit_printed = <<>>

FitOff ==
    /\ fit_pc = "off"
    /\ fit_n = 0
    /\ FitFresh

EvFresh ==
    /\ ev_order = <<>>
    /\ ev_i = 0
    /\ eval_preds = <<>>
    /\ eval_labels = <<>>
    /\ ev_printed = <<>>

EvOff ==
    /\ ev_pc = "off"
    /\ val_labels = <<>>
    /\ ev_model = <<>>
    /\ EvFresh

NliOff == DsOff /\ FitOff /\ EvOff

----------------------------------------------------------------------------
(* HTML text extraction (defined alike in the article ranking notebook and *)
(* in the semantic search notebook)                                        *)

\* BeautifulSoup(html.content, 'lxml').findAll(text=True) returns the strings
\* of the parsed page in document order, comments among them (Comment is a
\* subclass of NavigableString).  A page is modelled as that list: each
\* string has the name of its parent tag, its kind and its text.

\* tag_visible(element)
tag_visible(element) ==
    IF element.parent \in {"p"} THEN TRUE
    ELSE IF element.kind = "comment" THEN FALSE
    ELSE FALSE

\* text_from_html(html), page being the list of the strings of html
text_from_html(page) ==
    LET visible_texts == SelectSeq(page, tag_visible)
    IN  Join(<<" ">>, [j \in 1..Len(visible_texts) |-> Strip(visible_texts[j].text)])

\* The strings a page is made of in SpecHtml: text or comment, directly
\* inside a <p> or inside a <div>.  Comments are written with x and y, text
\* with a and b.
PageStrings ==
    [parent : {"p", "div"}, kind : {"text"}, text : {<<" ", "a", " ">>, <<"b">>}]
    \cup
    [parent : {"p", "div"}, kind : {"comment"}, text : {<<" ", "x", " ">>, <<"y">>}]

\* the pages of at most MaxNodes strings
SmallPages == UNION { [1..n -> PageStrings] : n \in 0..MaxNodes }

\* text_from_html is about to be called on some page
HtmlStart ==
    /\ html_pc = "call"
    /\ html_page \in SmallPages
    /\ html_text = <<>>

\* html_text = text_from_html(html_page)
ExtractText ==
    /\ html_pc = "call"
    /\ html_text' = text_from_html(html_page)
    /\ html_pc' = "done"
    /\ UNCHANGED html_page
    /\ UNCHANGED notHtml

----------------------------------------------------------------------------
(* The semantic search notebook (src/unnamed/part_002) *)

\* num_results = 5
sem_num_results == 5

\* A sample text with d full stops: d+1 sentences "a", "aa", "aaa", ...
RECURSIVE SampleText(_)
SampleText(d) ==
    IF d = 0 THEN <<"a">> ELSE SampleText(d - 1) \o <<".">> \o Chars("a", d + 1)

\* The pages requests.get(website) may return: a script, and a paragraph
\* holding a sample text (or nothing at all)
Pages ==
    { << [parent |-> "script", kind |-> "text", text |-> <<"x", ".", "x">>],
         [parent |-> "p", kind |-> "text", text |-> <<" ">> \o SampleText(d) \o <<" ">>] >> :
        d \in 0..MaxDots }
    \cup { << [parent |-> "p", kind |-> "text", text |-> <<" ">>] >> }

\* results.argsort(): the indices (from 0) that put arr in non-decreasing
\* order.  numpy's default sort is not stable, so every order of equal
\* elements may come out: Argsorts(arr, S) is the set of all orders of the
\* positions S.
RECURSIVE Argsorts(_, _)
Argsorts(arr, S) ==
    IF S = {} THEN {<<>>}
    ELSE LET least == {i \in S : \A k \in S : arr[i] <= arr[k]}
         IN  UNION { { <<i - 1>> \o o : o \in Argsorts(arr, S \ {i}) } : i \in least }

\* Mutant of TopRanked: results.argsort()[:num_results][::-1], the first
\* indices of the ascending order instead of the last
TopRankedFromStart(order, k) == Reverse(Take(order, k))

\* results.argsort()[-num_results:][::-1], for one outcome of argsort
TopRanked(order, k) == Reverse(LastK(order, k))

\* results[num_results]: numpy indexing with an array of indices
ItemsAt(arr, indices) == [j \in 1..Len(indices) |-> arr[indices[j] + 1]]

\* html = requests.get(website); src_text = text_from_html(html);
\* input_text = src_text.split('.')
FetchAndSplit ==
    /\ sem_pc = "fetch"
    /\ \E page \in Pages :
           /\ sem_src_text' = text_from_html(page)
           /\ input_text' = Split(text_from_html(page), ".")
    /\ sem_pc' = "encode"
    /\ UNCHANGED <<results, sem_ranked, sem_scores, sentences, sem_printed>>
    /\ UNCHANGED notSem

\* the encoding cell and the first line of the ranking cell: one cosine
\* similarity per element of input_text
EncodeAndCompare ==
    /\ sem_pc = "encode"
    /\ \E sims \in [1..Len(input_text) -> 0..MaxSim] : results' = sims
    /\ sem_pc' = "rank"
    /\ UNCHANGED <<sem_src_text, input_text, sem_ranked, sem_scores, sentences,
                   sem_printed>>
    /\ UNCHANGED notSem

\* the rest of the ranking cell
RankSentences ==
    /\ sem_pc = "rank"
    /\ \E order \in Argsorts(results, 1..Len(results)) :
           /\ sem_ranked' = TopRanked(order, sem_num_results)
           /\ sem_scores' = ItemsAt(results, TopRanked(order, sem_num_results))
           /\ sentences' = ItemsAt(input_text, TopRanked(order, sem_num_results))
    /\ sem_pc' = "print"
    /\ UNCHANGED <<sem_src_text, input_text, results, sem_printed>>
    /\ UNCHANGED notSem

\* the print cell: one line per zip(sentences, scores)
PrintSentences ==
    /\ sem_pc = "print"
    /\ sem_printed' =
           [j \in 1..Min(Len(sentences), Len(sem_scores)) |->
               [sentence |-> sentences[j], score |-> sem_scores[j]]]
    /\ sem_pc' = "done"
    /\ UNCHANGED <<sem_src_text, input_text, results, sem_ranked, sem_scores,
                   sentences>>
    /\ UNCHANGED notSem

----------------------------------------------------------------------------
(* simple-search-engine-with-bm25.ipynb *)

\* num_docs = 10000: the max_results asked of the arXiv API
num_docs == 10000
\* num_results = 5
bm_num_results == 5

\* stopwords.words('english'), as far as the sample tokens go
stop_words == {"the", "of"}

\* str.isalpha on the sample tokens
isalpha(token) ==
    token \in {"the", "of", "nli", "model", "The", "Of", "NLI", "Model"}

\* str.lower on the sample tokens
lower(token) ==
    CASE token = "The" -> "the"
      [] token = "Of" -> "of"
      [] token = "NLI" -> "nli"
      [] token = "Model" -> "model"
      [] token = "BERT2" -> "bert2"
      [] OTHER -> token

\* The abstracts (entry.summary) of three sample entries, word by word:
\* upper and lower case, stop words, a hyphen, a word with a digit.
\* Lower-casing the text and the regex spacing leave the word boundaries
\* where they are, so word_tokenize(doc.lower()) gives the lower-cased words.
SampleSummaries ==
    << <<"The", "-">>, <<"NLI", "the", "Model">>, <<"BERT2", "nli", "Of">> >>

\* The feeds the arXiv API may return: n entries, at most MaxDocs (and never
\* more than the num_docs asked for); entry i carries its arXiv id.
Feeds ==
    { [i \in 1..n |-> [id |-> i,
                       summary |-> SampleSummaries[((i + shift) % 3) + 1]]] :
        n \in 0..Min(MaxDocs, num_docs), shift \in 0..2 }

\* word_tokenize(doc.lower()), doc being the abstract
TokenizeLowered(summary) == [j \in 1..Len(summary) |-> lower(summary[j])]

\* Mutant of PreprocessDoc: stop words and non-alphabetic words are taken
\* out of the text as it came, and what is left is lower-cased
PreprocessDocLowersLast(summary) ==
    LET keep(token) == token \notin stop_words /\ isalpha(token)
    IN  TokenizeLowered(SelectSeq(summary, keep))

\* the body of the preprocessing loop, for one entry: the abstract is
\* lower-cased and tokenized, then stop words and tokens that are not
\* purely alphabetic are left out
PreprocessDoc(summary) ==
    LET keep(token) == token \notin stop_words /\ isalpha(token)
    IN  SelectSeq(TokenizeLowered(summary), keep)

\* BM25Okapi(tokenized_docs) divides by the corpus size and by the number of
\* distinct terms: it raises ZeroDivisionError on a corpus without a token.
BM25Fails(docs) == \A i \in 1..Len(docs) : docs[i] = <<>>

\* Mutant of Enumerate: enumerate(scores, 1), the indices start at 1
EnumerateFromOne(arr) == [j \in 1..Len(arr) |-> <<j, arr[j]>>]

\* [(i, v) for i, v in enumerate(scores)]: Python indices start at 0
Enumerate(arr) == [j \in 1..Len(arr) |-> <<j - 1, arr[j]>>]

\* Mutant of InsertDesc: the sort without reverse=True (ascending)
RECURSIVE InsertAsc(_, _)
InsertAsc(sorted, p) ==
    IF sorted = <<>> THEN <<p>>
    ELSE IF Head(sorted)[2] <= p[2]
         THEN <<Head(sorted)>> \o InsertAsc(Tail(sorted), p)
         ELSE <<p>> \o sorted

\* list.sort(key=lambda x: x[1], reverse=True) is a stable sort: pairs with
\* equal scores keep their order.  InsertDesc puts p behind every pair whose
\* score is at least p's.
RECURSIVE InsertDesc(_, _)
InsertDesc(sorted, p) ==
    IF sorted = <<>> THEN <<p>>
    ELSE IF Head(sorted)[2] >= p[2]
         THEN <<Head(sorted)>> \o InsertDesc(Tail(sorted), p)
         ELSE <<p>> \o sorted

RECURSIVE SortByScoreDesc(_)
SortByScoreDesc(pairs) ==
    IF pairs = <<>> THEN <<>>
    ELSE InsertDesc(SortByScoreDesc(SubSeq(pairs, 1, Len(pairs) - 1)),
                    pairs[Len(pairs)])

\* get_bm25_scores, given the array bm25.get_scores(query) returned
get_bm25_scores(bm25_scores) == SortByScoreDesc(Enumerate(bm25_scores))

\* feed = feedparser.parse(url)
ParseFeed ==
    /\ bm_pc = "feed"
    /\ \E f \in Feeds : feed_entries' = f
    /\ bm_pc' = "preprocess"
    /\ UNCHANGED <<tokenized_docs, raw_scores, scores, idx, final_scores,
                   documents, bm_printed>>
    /\ UNCHANGED notBm

\* the preprocessing loop: one token list per entry, in feed order
PreprocessDocs ==
    /\ bm_pc = "preprocess"
    /\ tokenized_docs' =
           [i \in 1..Len(feed_entries) |-> PreprocessDoc(feed_entries[i].summary)]
    /\ bm_pc' = "score"
    /\ UNCHANGED <<feed_entries, raw_scores, scores, idx, final_scores,
                   documents, bm_printed>>
    /\ UNCHANGED notBm

\* scores = get_bm25_scores(tokenized_docs, query): the scorer returns one
\* score per document
ScoreDocs ==
    /\ bm_pc = "score"
    /\ ~BM25Fails(tokenized_docs)
    /\ \E arr \in [1..Len(tokenized_docs) -> 0..MaxScore] :
           /\ raw_scores' = arr
           /\ scores' = get_bm25_scores(arr)
    /\ bm_pc' = "select"
    /\ UNCHANGED <<feed_entries, tokenized_docs, idx, final_scores, documents,
                   bm_printed>>
    /\ UNCHANGED notBm

\* the same cell when BM25Okapi raises: the notebook stops there
ScoreDocsFails ==
    /\ bm_pc = "score"
    /\ BM25Fails(tokenized_docs)
    /\ bm_pc' = "failed"
    /\ UNCHANGED <<feed_entries, tokenized_docs, raw_scores, scores, idx,
                   final_scores, documents, bm_printed>>
    /\ UNCHANGED notBm

\* np.array(scores)[:num_results, 0].astype(int): the first column of the
\* first num_results rows.  The indices pass through float64 and back, which
\* is exact below 2^53.
TopIndices(pairs, k) == [j \in 1..Len(Take(pairs, k)) |-> pairs[j][1]]

\* Mutant of TopScores: np.array(scores)[-num_results:, 1], the last rows
TopScoresFromEnd(pairs, k) ==
    [j \in 1..Len(Take(pairs, k)) |-> pairs[Len(pairs) - Len(Take(pairs, k)) + j][2]]

\* np.array(scores)[:num_results, 1]
TopScores(pairs, k) == [j \in 1..Len(Take(pairs, k)) |-> pairs[j][2]]

\* [feed.entries[i] for i in idx]
EntriesAt(feed, indices) ==
    [j \in 1..Len(indices) |-> feed[indices[j] + 1]]

\* the selection cell; np.array([]) has one dimension, so indexing it with
\* two raises IndexError
SelectTop ==
    /\ bm_pc = "select"
    /\ IF scores = <<>>
       THEN /\ bm_pc' = "failed"
            /\ UNCHANGED <<idx, final_scores, documents>>
       ELSE /\ idx' = TopIndices(scores, bm_num_results)
            /\ final_scores' = TopScores(scores, bm_num_results)
            /\ documents' = EntriesAt(feed_entries, TopIndices(scores, bm_num_results))
            /\ bm_pc' = "print"
    /\ UNCHANGED <<feed_entries, tokenized_docs, raw_scores, scores, bm_printed>>
    /\ UNCHANGED notBm

\* the print cell: the header, then one block per zip(documents, final_scores)
PrintResults ==
    /\ bm_pc = "print"
    /\ bm_printed' =
           <<[searched |-> num_docs]>> \o
           [j \in 1..Min(Len(documents), Len(final_scores)) |->
               [doc |-> documents[j], score |-> final_scores[j]]]
    /\ bm_pc' = "done"
    /\ UNCHANGED <<feed_entries, tokenized_docs, raw_scores, scores, idx,
                   final_scores, documents>>
    /\ UNCHANGED notBm

----------------------------------------------------------------------------
(* classifier and summarise (article-ranking-with-an-nli-model.ipynb) *)

\* Mutant of classifier_input: source_text[-1024:], the end of the text
classifier_input_tail(source_text) == LastK(source_text, 1024)

\* src_text = source_text[:1024] in classifier: the text given to the
\* zero-shot classification pipeline
classifier_input(source_text) == Take(source_text, 1024)

\* src_text = source_text[:1024] in summarise: the text given to the
\* summarization pipeline
summarise_input(source_text) == Take(source_text, 1024)

\* A source text of n characters
SourceText(n) ==
    [j \in 1..n |-> <<"a", "b", "c", "d", "e", "f", "g">>[((j * j) % 7) + 1]]

\* classifier or summarise is about to be called on a source text
TrStart ==
    /\ tr_pc = "call"
    /\ tr_source_text \in {SourceText(n) : n \in 0..MaxTextLen}
    /\ tr_model_input = <<>>

\* classifier(tr_source_text, search_term), up to the pipeline call
CallClassifier ==
    /\ tr_pc = "call"
    /\ tr_model_input' = classifier_input(tr_source_text)
    /\ tr_pc' = "classifier"
    /\ UNCHANGED tr_source_text
    /\ UNCHANGED notTr

\* summarise(tr_source_text), up to the pipeline call
CallSummarise ==
    /\ tr_pc = "call"
    /\ tr_model_input' = summarise_input(tr_source_text)
    /\ tr_pc' = "summarise"
    /\ UNCHANGED tr_source_text
    /\ UNCHANGED notTr

----------------------------------------------------------------------------
(* article-ranking-with-an-nli-model.ipynb *)

\* days = 7
days == 7
\* number_of_articles = 4
number_of_articles == 4

\* The moment the filter cell starts, in seconds since the epoch
FilterTime == 86400 * 30

\* The local time zones the kernel may run in (seconds east of UTC)
TimeZones == {0 - 3600, 0, 3600}

\* The publication instants of the sample entries, in seconds since the
\* epoch: one day before the filter runs, one second less than `days` days
\* before, exactly `days` days before, and a day more than that.
PublishedTimes ==
    {FilterTime - 86400, FilterTime - 86400 * days + 1, FilterTime - 86400 * days,
     FilterTime - 86400 * days - 86400}

\* Entry i of a feed.  feedparser gives published_parsed as a struct_time in
\* UTC; it is modelled by the instant it denotes (seconds since the epoch).
Entry(i, published) ==
    [title |-> 100 + i, link |-> i, published_parsed |-> published]

\* well-formed feeds: every entry has all its attributes
WellFormedFeeds ==
    UNION { { [i \in 1..n |-> Entry(i, pub[i])] : pub \in [1..n -> PublishedTimes] } :
              n \in 0..MaxEntries }

\* the attributes of an entry the notebook reads
EntryFields == {"title", "link", "published_parsed"}

\* the entry without one of its attributes (the feed item had no such
\* element): reading the attribute raises AttributeError
Without(entry, field) == [f \in (DOMAIN entry) \ {field} |-> entry[f]]

Has(entry, field) == field \in DOMAIN entry

\* malformed feeds: entries published one day ago, one of them lacking one
\* of the attributes the notebook reads
MalformedFeeds ==
    UNION { { [i \in 1..n |-> IF i = bad
                              THEN Without(Entry(i, FilterTime - 86400), field)
                              ELSE Entry(i, FilterTime - 86400)] :
                bad \in 1..n, field \in EntryFields } :
              n \in 1..MaxEntries }

\* the feeds the feed URL may serve: well-formed ones, entries of any age,
\* and malformed ones
NewsFeeds == WellFormedFeeds \cup MalformedFeeds

\* feeds of entries published one day ago, well-formed or not
RecentFeeds ==
    { [i \in 1..n |-> Entry(i, FilterTime - 86400)] : n \in 0..MaxRecent }
        \cup MalformedFeeds

\* time.mktime(t) reads the struct_time t as LOCAL time: for a t that is in
\* UTC the result is off by the kernel's UTC offset.
mktime(t) == t - tz_offset

\* the condition of the entries filter, for an entry tested at time now
\* (now being what time.time() returned for it)
IsRecent(entry, now) == now - mktime(entry.published_parsed) < (86400 * days)

\* [entry for entry in newsfeed.entries if ...], at[i] being the time at
\* which entry i is tested
FilterRecent(feed, at) ==
    LET keep(i) == IsRecent(feed[i], at[i])
        kept == SelectSeq([i \in 1..Len(feed) |-> i], keep)
    IN  [j \in 1..Len(kept) |-> feed[kept[j]]]

\* The page requests.get(link) returns: a heading outside any paragraph and
\* a paragraph whose text depends on the link
PageAt(link) ==
    << [parent |-> "h1", kind |-> "text", text |-> <<"b">>],
       [parent |-> "p", kind |-> "text", text |-> <<" ">> \o SampleText(link)] >>

\* Mutant of InsertByRelevancy: sorted without reverse=True (ascending)
RECURSIVE InsertByRelevancyAsc(_, _)
InsertByRelevancyAsc(sorted, a) ==
    IF sorted = <<>> THEN <<a>>
    ELSE IF Head(sorted).relevancy <= a.relevancy
         THEN <<Head(sorted)>> \o InsertByRelevancyAsc(Tail(sorted), a)
         ELSE <<a>> \o sorted

\* sorted(articles, key=itemgetter("relevancy"), reverse=True) is a stable
\* sort: InsertByRelevancy puts a behind every record whose relevancy is at
\* least a's.
RECURSIVE InsertByRelevancy(_, _)
InsertByRelevancy(sorted, a) ==
    IF sorted = <<>> THEN <<a>>
    ELSE IF Head(sorted).relevancy >= a.relevancy
         THEN <<Head(sorted)>> \o InsertByRelevancy(Tail(sorted), a)
         ELSE <<a>> \o sorted

RECURSIVE SortByRelevancy(_)
SortByRelevancy(recs) ==
    IF recs = <<>> THEN <<>>
    ELSE InsertByRelevancy(SortByRelevancy(SubSeq(recs, 1, Len(recs) - 1)),
                           recs[Len(recs)])

\* Mutant of DisplaySlice: the loop runs over all of sorted_articles
DisplayAll(recs) == recs

\* sorted_articles[:number_of_articles], the records the display loop runs over
DisplaySlice(recs) == Take(recs, number_of_articles)

\* Mutant of AfterException: the failed statement is tried again
AfterExceptionRetries(pc) == pc

\* No statement of the notebook is inside a try block: an exception raised
\* by the statement at pc ends the cell, whatever pc is.
AfterException(pc) == "failed"

\* the surroundings of a run: the kernel's time zone and what the feed serves
artEnv == <<tz_offset, served_feed>>

\* newsfeed = feedparser.parse(feed); articles = []
ParseNewsfeed ==
    /\ art_pc = "parse"
    /\ newsfeed' = served_feed
    /\ articles' = <<>>
    /\ art_pc' = "filter"
    /\ UNCHANGED <<article, art_error, checked_at, entries, loop_i, html, src_text,
                   classification, sorted_articles, disp_i, displayed, ext_calls>>
    /\ UNCHANGED artEnv
    /\ UNCHANGED notArt

\* entries = [entry for entry in newsfeed.entries if time.time() - ... ]:
\* time.time() is read once per entry; the clock may tick (by one second)
\* while the list is built, so the last `late` entries are tested one second
\* later than the first ones.
FilterEntries ==
    /\ art_pc = "filter"
    /\ \A i \in 1..Len(newsfeed) : Has(newsfeed[i], "published_parsed")
    /\ \E late \in 0..Len(newsfeed) :
           LET at == [i \in 1..Len(newsfeed) |->
                         IF i <= Len(newsfeed) - late THEN FilterTime
                         ELSE FilterTime + 1]
           IN  /\ checked_at' = at
               /\ entries' = FilterRecent(newsfeed, at)
               /\ art_pc' = IF FilterRecent(newsfeed, at) = <<>> THEN "sort" ELSE "get"
    /\ loop_i' = 1
    /\ UNCHANGED <<article, art_error, newsfeed, html, src_text, classification, articles,
                   sorted_articles, disp_i, displayed, ext_calls>>
    /\ UNCHANGED artEnv
    /\ UNCHANGED notArt

\* entry.published_parsed raises AttributeError for an entry without a
\* publication date: the list comprehension ends there, entries is not bound
FilterFails ==
    /\ art_pc = "filter"
    /\ \E i \in 1..Len(newsfeed) : ~Has(newsfeed[i], "published_parsed")
    /\ art_pc' = AfterException(art_pc)
    /\ art_error' = "published_parsed"
    /\ UNCHANGED <<newsfeed, checked_at, entries, loop_i, html, src_text,
                   classification, article, articles, sorted_articles, disp_i,
                   displayed, ext_calls>>
    /\ UNCHANGED artEnv
    /\ UNCHANGED notArt

\* html = requests.get(entry.link)
FetchArticle ==
    /\ art_pc = "get"
    /\ Has(entries[loop_i], "link")
    /\ html' = PageAt(entries[loop_i].link)
    /\ ext_calls' = Append(ext_calls, [call |-> "requests.get", entry |-> entries[loop_i].link,
                                 arg |-> entries[loop_i].link])
    /\ art_pc' = "extract"
    /\ UNCHANGED <<article, art_error, newsfeed, checked_at, entries, loop_i, src_text,
                   classification, articles, sorted_articles, disp_i, displayed>>
    /\ UNCHANGED artEnv
    /\ UNCHANGED notArt

\* requests.get raises (no route, time-out, ...): the cell ends there
FetchArticleFails ==
    /\ art_pc = "get"
    /\ Has(entries[loop_i], "link")
    /\ ext_calls' = Append(ext_calls, [call |-> "requests.get", entry |-> entries[loop_i].link,
                                 arg |-> entries[loop_i].link])
    /\ art_pc' = AfterException(art_pc)
    /\ art_error' = "requests.get"
    /\ UNCHANGED <<article, newsfeed, checked_at, entries, loop_i, html, src_text,
                   classification, articles, sorted_articles, disp_i, displayed>>
    /\ UNCHANGED artEnv
    /\ UNCHANGED notArt

\* entry.link raises AttributeError for an entry without a link, before
\* requests.get is called
LinkMissing ==
    /\ art_pc = "get"
    /\ ~Has(entries[loop_i], "link")
    /\ art_pc' = AfterException(art_pc)
    /\ art_error' = "link"
    /\ UNCHANGED <<newsfeed, checked_at, entries, loop_i, html, src_text,
                   classification, article, articles, sorted_articles, disp_i,
                   displayed, ext_calls>>
    /\ UNCHANGED artEnv
    /\ UNCHANGED notArt

\* text_from_html raises (BeautifulSoup finds no lxml parser, ...)
ExtractArticleTextFails ==
    /\ art_pc = "extract"
    /\ art_pc' = AfterException(art_pc)
    /\ art_error' = "text_from_html"
    /\ UNCHANGED <<newsfeed, checked_at, entries, loop_i, html, src_text,
                   classification, article, articles, sorted_articles, disp_i,
                   displayed, ext_calls>>
    /\ UNCHANGED artEnv
    /\ UNCHANGED notArt

\* src_text = text_from_html(html)
ExtractArticleText ==
    /\ art_pc = "extract"
    /\ src_text' = text_from_html(html)
    /\ art_pc' = "classify"
    /\ UNCHANGED <<article, art_error, newsfeed, checked_at, entries, loop_i, html,
                   classification, articles, sorted_articles, disp_i, displayed,
                   ext_calls>>
    /\ UNCHANGED artEnv
    /\ UNCHANGED notArt

\* classification = classifier(src_text, search_term); the pipeline answers
\* with some score for the search term
ClassifyArticle ==
    /\ art_pc = "classify"
    /\ \E score \in 0..MaxRelevancy : classification' = score
    /\ ext_calls' = Append(ext_calls, [call |-> "classifier", entry |-> entries[loop_i].link,
                                 arg |-> classifier_input(src_text)])
    /\ art_pc' = "record"
    /\ UNCHANGED <<article, art_error, newsfeed, checked_at, entries, loop_i, html, src_text,
                   articles, sorted_articles, disp_i, displayed>>
    /\ UNCHANGED artEnv
    /\ UNCHANGED notArt

\* the pipeline raises (no GPU for device=0, out of memory, ...)
ClassifyArticleFails ==
    /\ art_pc = "classify"
    /\ ext_calls' = Append(ext_calls, [call |-> "classifier", entry |-> entries[loop_i].link,
                                 arg |-> classifier_input(src_text)])
    /\ art_pc' = AfterException(art_pc)
    /\ art_error' = "classifier"
    /\ UNCHANGED <<article, newsfeed, checked_at, entries, loop_i, html, src_text,
                   classification, articles, sorted_articles, disp_i, displayed>>
    /\ UNCHANGED artEnv
    /\ UNCHANGED notArt

\* Mutant of NewArticle: the record is appended before its relevancy is set
NewArticleWithoutRelevancy(entry, text, score) ==
    [title |-> entry.title,
     link |-> entry.link,
     src_text |-> text,
     published |-> entry.published_parsed]

\* Mutant of NewArticle: the link stored under "title" as well
NewArticleTitleFromLink(entry, text, score) ==
    [title |-> entry.link,
     link |-> entry.link,
     src_text |-> text,
     published |-> entry.published_parsed,
     relevancy |-> score]

\* article = dict(); article["title"] = entry.title; ...
NewArticle(entry, text, score) ==
    [title |-> entry.title,
     link |-> entry.link,
     src_text |-> text,
     published |-> entry.published_parsed,
     relevancy |-> score]

\* Mutant of articles_append: the record is put on the list twice
articles_append_twice(arts, a) == Append(Append(arts, a), a)

\* Mutant of articles_append: the record is not put on the list
articles_append_nothing(arts, a) == arts

\* articles.append(article)
articles_append(arts, a) == Append(arts, a)

\* the record is built and appended: articles.append(article); then the for
\* statement moves to the next entry or ends
RecordArticle ==
    /\ art_pc = "record"
    /\ Has(entries[loop_i], "title")
    /\ article' = NewArticle(entries[loop_i], src_text, classification)
    /\ articles' = articles_append(articles,
                                   NewArticle(entries[loop_i], src_text, classification))
    /\ loop_i' = loop_i + 1
    /\ art_pc' = IF loop_i < Len(entries) THEN "get" ELSE "sort"
    /\ UNCHANGED <<art_error, newsfeed, checked_at, entries, html, src_text,
                   classification, sorted_articles, disp_i, displayed, ext_calls>>
    /\ UNCHANGED artEnv
    /\ UNCHANGED notArt

\* article = dict(); article["title"] = entry.title raises AttributeError
\* for an entry without a title: article is left empty and is not appended
TitleMissing ==
    /\ art_pc = "record"
    /\ ~Has(entries[loop_i], "title")
    /\ article' = <<>>
    /\ art_pc' = AfterException(art_pc)
    /\ art_error' = "title"
    /\ UNCHANGED <<newsfeed, checked_at, entries, loop_i, html, src_text,
                   classification, articles, sorted_articles, disp_i, displayed,
                   ext_calls>>
    /\ UNCHANGED artEnv
    /\ UNCHANGED notArt

\* sorted_articles = sorted(articles, key=itemgetter("relevancy"), reverse=True)
SortArticles ==
    /\ art_pc = "sort"
    /\ sorted_articles' = SortByRelevancy(articles)
    /\ disp_i' = 1
    /\ art_pc' = "display"
    /\ UNCHANGED <<article, art_error, newsfeed, checked_at, entries, loop_i, html, src_text,
                   classification, articles, displayed, ext_calls>>
    /\ UNCHANGED artEnv
    /\ UNCHANGED notArt

\* one turn of the display loop: summary = summarise(article["src_text"]);
\* printmd(...).  The summary is whatever the pipeline makes of its input.
DisplayArticle ==
    /\ art_pc = "display"
    /\ disp_i <= Len(DisplaySlice(sorted_articles))
    /\ LET shown == DisplaySlice(sorted_articles)[disp_i]
       IN  /\ ext_calls' = Append(ext_calls,
                                  [call |-> "summarise", entry |-> shown.link,
                                   arg |-> summarise_input(shown.src_text)])
           /\ displayed' = Append(displayed,
                                  [title |-> shown.title,
                                   link |-> shown.link,
                                   summary |-> [summary_of |-> summarise_input(shown.src_text)],
                                   score |-> 100 * shown.relevancy])
    /\ disp_i' = disp_i + 1
    /\ UNCHANGED <<article, art_pc, art_error, newsfeed, checked_at, entries, loop_i, html,
                   src_text, classification, articles, sorted_articles>>
    /\ UNCHANGED artEnv
    /\ UNCHANGED notArt

\* the summarization pipeline raises
SummariseFails ==
    /\ art_pc = "display"
    /\ disp_i <= Len(DisplaySlice(sorted_articles))
    /\ ext_calls' = Append(ext_calls,
                           [call |-> "summarise",
                            entry |-> DisplaySlice(sorted_articles)[disp_i].link,
                            arg |-> summarise_input(DisplaySlice(sorted_articles)[disp_i].src_text)])
    /\ art_pc' = AfterException(art_pc)
    /\ art_error' = "summarise"
    /\ UNCHANGED <<article, newsfeed, checked_at, entries, loop_i, html, src_text,
                   classification, articles, sorted_articles, disp_i, displayed>>
    /\ UNCHANGED artEnv
    /\ UNCHANGED notArt

\* the display loop is through: print(... End of output ...)
FinishDisplay ==
    /\ art_pc = "display"
    /\ disp_i > Len(DisplaySlice(sorted_articles))
    /\ art_pc' = "done"
    /\ UNCHANGED <<article, art_error, newsfeed, checked_at, entries, loop_i, html, src_text,
                   classification, articles, sorted_articles, disp_i, displayed,
                   ext_calls>>
    /\ UNCHANGED artEnv
    /\ UNCHANGED notArt

----------------------------------------------------------------------------
(* The NLI fine-tuning notebook (second notebook of                        *)
(* src/simple-search-engine-with-bm25.ipynb): NLIDataset                   *)

\* the classes of MultiNLI: entailment, neutral, contradiction
NliLabels == {0, 1, 2}

\* What the tokeniser returns for n sentence pairs: under each key one row
\* per pair (padding=True makes the rows of a key equally long; a row is
\* modelled by a number that tells the rows apart).
Encodings(n) ==
    { [input_ids |-> ids, attention_mask |-> mask] :
        ids \in [1..n -> {101, 102}], mask \in [1..n -> {0, 1}] }

\* torch.tensor(value)
tensor(value) == [tensor |-> value]

\* Mutant of NLIDataset_getitem: the label of the first example for every idx
NLIDataset_getitem_first_label(encodings, labels, index) ==
    [key \in (DOMAIN encodings) \cup {"labels"} |->
        IF key = "labels" THEN tensor(labels[1])
        ELSE tensor(encodings[key][index + 1])]

\* NLIDataset.__getitem__(self, idx): idx counts from 0
NLIDataset_getitem(encodings, labels, index) ==
    [key \in (DOMAIN encodings) \cup {"labels"} |->
        IF key = "labels" THEN tensor(labels[index + 1])
        ELSE tensor(encodings[key][index + 1])]

\* NLIDataset.__len__
NLIDataset_len(encodings) == Len(encodings.input_ids)

\* NLIDataset(encodings, labels), as the notebook builds train_dataset and
\* val_dataset: one label for each encoded pair
DsStart ==
    /\ ds_pc = "built"
    /\ \E n \in 0..MaxExamples :
           /\ ds_encodings \in Encodings(n)
           /\ ds_labels \in [1..n -> NliLabels]
    /\ ds_len = 0
    /\ ds_idx = 0
    /\ ds_item = <<>>

\* len(dataset)
DatasetLen ==
    /\ ds_pc = "built"
    /\ ds_len' = NLIDataset_len(ds_encodings)
    /\ ds_pc' = "ready"
    /\ UNCHANGED <<ds_encodings, ds_labels, ds_idx, ds_item>>
    /\ UNCHANGED <<notDs, notNli>>

\* dataset[idx], for an idx in range(len(dataset))
DatasetGetItem ==
    /\ ds_pc = "ready"
    /\ \E index \in 0..(ds_len - 1) :
           /\ ds_idx' = index
           /\ ds_item' = NLIDataset_getitem(ds_encodings, ds_labels, index)
    /\ ds_pc' = "got"
    /\ UNCHANGED <<ds_encodings, ds_labels, ds_len>>
    /\ UNCHANGED <<notDs, notNli>>

----------------------------------------------------------------------------
(* The NLI fine-tuning notebook: DataLoader and the training cell *)

\* epochs = 3
epochs == 3

\* The orders a shuffling sampler may draw for a dataset of n examples: the
\* permutations of the indices 0..n-1
Shuffles(n) ==
    {p \in [1..n -> 0..(n - 1)] : \A i, j \in 1..n : p[i] = p[j] => i = j}

\* Mutant of Batches: drop_last=True, a last batch that is not full is left out
RECURSIVE BatchesDropLast(_)
BatchesDropLast(order) ==
    IF Len(order) < BatchSize THEN <<>>
    ELSE <<Take(order, BatchSize)>>
             \o BatchesDropLast(SubSeq(order, BatchSize + 1, Len(order)))

\* The batches an iteration of DataLoader(dataset, batch_size, shuffle=True)
\* yields for the order its sampler drew: consecutive runs of batch_size
\* indices, the last one shorter when the dataset does not divide evenly
RECURSIVE Batches(_)
Batches(order) ==
    IF order = <<>> THEN <<>>
    ELSE <<Take(order, BatchSize)>>
             \o Batches(SubSeq(order, BatchSize + 1, Len(order)))

\* len(loader) for a dataset of n examples: n / batch_size, rounded up
LoaderLen(n) == (n + BatchSize - 1) \div BatchSize

\* the statements of the body of the training loop that act on the model,
\* in the order of the source
BatchSteps == <<"zero_grad", "forward", "backward", "step", "append">>

FitStart ==
    /\ fit_pc = "epoch"
    /\ fit_n \in 0..MaxTrain
    /\ FitFresh

\* for epoch in range(epochs): all_losses = []; the inner for statement
\* asks train_loader for an iterator, whose sampler draws an order
StartEpoch ==
    /\ fit_pc = "epoch"
    /\ fit_epochs_done < epochs
    /\ all_losses' = <<>>
    /\ fit_order' \in Shuffles(fit_n)
    /\ fit_seen' = <<>>
    /\ fit_pc' = "batch"
    /\ UNCHANGED <<fit_n, fit_epochs_done, fit_batch, fit_steps, fit_loss,
                   optim_steps, fit_printed>>
    /\ UNCHANGED <<notFit, notNli>>

\* the iterator yields the next batch; optim.zero_grad()
ZeroGrad ==
    /\ fit_pc = "batch"
    /\ Len(fit_seen) < Len(Batches(fit_order))
    /\ fit_batch' = Batches(fit_order)[Len(fit_seen) + 1]
    /\ fit_steps' = <<"zero_grad">>
    /\ fit_pc' = "forward"
    /\ UNCHANGED <<fit_n, fit_epochs_done, fit_order, fit_seen, fit_loss,
                   all_losses, optim_steps, fit_printed>>
    /\ UNCHANGED <<notFit, notNli>>

\* the tensors of the batch go to the device; outputs = model(...);
\* loss = outputs[0]
Forward ==
    /\ fit_pc = "forward"
    /\ fit_loss' \in 0..MaxLoss
    /\ fit_steps' = Append(fit_steps, "forward")
    /\ fit_pc' = "backward"
    /\ UNCHANGED <<fit_n, fit_epochs_done, fit_order, fit_seen, fit_batch,
                   all_losses, optim_steps, fit_printed>>
    /\ UNCHANGED <<notFit, notNli>>

\* the forward pass raises (out of memory, ...): the cell ends there
ForwardFails ==
    /\ fit_pc = "forward"
    /\ fit_pc' = "failed"
    /\ UNCHANGED <<fit_n, fit_epochs_done, fit_order, fit_seen, fit_batch,
                   fit_steps, fit_loss, all_losses, optim_steps, fit_printed>>
    /\ UNCHANGED <<notFit, notNli>>

\* loss.backward()
Backward ==
    /\ fit_pc = "backward"
    /\ fit_steps' = Append(fit_steps, "backward")
    /\ fit_pc' = "step"
    /\ UNCHANGED <<fit_n, fit_epochs_done, fit_order, fit_seen, fit_batch,
                   fit_loss, all_losses, optim_steps, fit_printed>>
    /\ UNCHANGED <<notFit, notNli>>

\* optim.step()
OptimStep ==
    /\ fit_pc = "step"
    /\ optim_steps' = optim_steps + 1
    /\ fit_steps' = Append(fit_steps, "step")
    /\ fit_pc' = "append"
    /\ UNCHANGED <<fit_n, fit_epochs_done, fit_order, fit_seen, fit_batch,
                   fit_loss, all_losses, fit_printed>>
    /\ UNCHANGED <<notFit, notNli>>

\* all_losses.append(loss.item()): the body is through with this batch
AppendLoss ==
    /\ fit_pc = "append"
    /\ all_losses' = Append(all_losses, fit_loss)
    /\ fit_steps' = Append(fit_steps, "append")
    /\ fit_seen' = Append(fit_seen, fit_batch)
    /\ fit_pc' = "batch"
    /\ UNCHANGED <<fit_n, fit_epochs_done, fit_order, fit_batch, fit_loss,
                   optim_steps, fit_printed>>
    /\ UNCHANGED <<notFit, notNli>>

\* sum(s), for the mean
RECURSIVE SumSeq(_)
SumSeq(s) == IF s = <<>> THEN 0 ELSE Head(s) + SumSeq(Tail(s))

\* the iterator is exhausted: print("Mean loss ...", np.mean(all_losses));
\* the mean is written as <<sum, count>>
EndEpoch ==
    /\ fit_pc = "batch"
    /\ Len(fit_seen) >= Len(Batches(fit_order))
    /\ fit_printed' = Append(fit_printed, <<SumSeq(all_losses), Len(all_losses)>>)
    /\ fit_epochs_done' = fit_epochs_done + 1
    /\ fit_pc' = "epoch"
    /\ UNCHANGED <<fit_n, fit_order, fit_seen, fit_batch, fit_steps, fit_loss,
                   all_losses, optim_steps>>
    /\ UNCHANGED <<notFit, notNli>>

\* range(epochs) is exhausted
FinishTraining ==
    /\ fit_pc = "epoch"
    /\ fit_epochs_done >= epochs
    /\ fit_pc' = "done"
    /\ UNCHANGED <<fit_n, fit_epochs_done, fit_order, fit_seen, fit_batch,
                   fit_steps, fit_loss, all_losses, optim_steps, fit_printed>>
    /\ UNCHANGED <<notFit, notNli>>

----------------------------------------------------------------------------
(* The NLI fine-tuning notebook: the evaluation cell *)

\* Mutant of BatchLabels: the labels of a batch in the opposite order
BatchLabelsReversed(labels, batch) ==
    [j \in 1..Len(batch) |-> labels[batch[Len(batch) + 1 - j] + 1]]

\* batch['labels']: the loader collates dataset[i]['labels'] for the
\* indices i of the batch, in the batch's order
BatchLabels(labels, batch) == [j \in 1..Len(batch) |-> labels[batch[j] + 1]]

\* preds[1].argmax(dim=-1): row j is the class the model gives example j
\* of the batch
BatchPreds(model, batch) == [j \in 1..Len(batch) |-> model[batch[j] + 1]]

\* np.concatenate(arrays)
RECURSIVE concatenate(_)
concatenate(arrays) ==
    IF arrays = <<>> THEN <<>> ELSE Head(arrays) \o concatenate(Tail(arrays))

\* (a == b).mean() for arrays of one length, as <<sum, count>>
MeanEqual(a, b) == <<Cardinality({j \in 1..Len(a) : a[j] = b[j]}), Len(a)>>

\* round(100 * mean): Python rounds a half to the even neighbour
RoundPercent(mean) ==
    LET q == (100 * mean[1]) \div mean[2]
        r == (100 * mean[1]) % mean[2]
    IN  IF 2 * r < mean[2] THEN q
        ELSE IF 2 * r > mean[2] THEN q + 1
        ELSE IF q % 2 = 0 THEN q ELSE q + 1

\* the validation set and the trained model
EvStart ==
    /\ ev_pc = "eval"
    /\ \E n \in 0..MaxVal :
           /\ val_labels \in [1..n -> NliLabels]
           /\ ev_model \in [1..n -> NliLabels]
    /\ EvFresh

\* model.eval(); eval_preds = []; eval_labels = []; the for statement asks
\* val_loader for an iterator, whose sampler draws an order
StartEval ==
    /\ ev_pc = "eval"
    /\ eval_preds' = <<>>
    /\ eval_labels' = <<>>
    /\ ev_order' \in Shuffles(Len(val_labels))
    /\ ev_i' = 0
    /\ ev_pc' = "batch"
    /\ UNCHANGED <<val_labels, ev_model, ev_printed>>
    /\ UNCHANGED <<notEv, notNli>>

\* the body of the evaluation loop for the next batch
EvalBatch ==
    /\ ev_pc = "batch"
    /\ ev_i < Len(Batches(ev_order))
    /\ eval_preds' = Append(eval_preds, BatchPreds(ev_model, Batches(ev_order)[ev_i + 1]))
    /\ eval_labels' = Append(eval_labels, BatchLabels(val_labels, Batches(ev_order)[ev_i + 1]))
    /\ ev_i' = ev_i + 1
    /\ UNCHANGED <<ev_pc, val_labels, ev_model, ev_order, ev_printed>>
    /\ UNCHANGED <<notEv, notNli>>

\* the forward pass raises: the cell ends there
EvalBatchFails ==
    /\ ev_pc = "batch"
    /\ ev_i < Len(Batches(ev_order))
    /\ ev_pc' = "failed"
    /\ UNCHANGED <<val_labels, ev_model, ev_order, ev_i, eval_preds, eval_labels,
                   ev_printed>>
    /\ UNCHANGED <<notEv, notNli>>

\* print("Validation accuracy ...", round(100 * (np.concatenate(eval_labels)
\* == np.concatenate(eval_preds)).mean()), 2)
PrintAccuracy ==
    /\ ev_pc = "batch"
    /\ ev_i >= Len(Batches(ev_order))
    /\ eval_labels # <<>>
    /\ LET mean == MeanEqual(concatenate(eval_labels), concatenate(eval_preds))
       IN  ev_printed' = [accuracy |-> mean, shown |-> RoundPercent(mean)]
    /\ ev_pc' = "done"
    /\ UNCHANGED <<val_labels, ev_model, ev_order, ev_i, eval_preds, eval_labels>>
    /\ UNCHANGED <<notEv, notNli>>

\* np.concatenate of an empty list raises ValueError (no validation example)
ConcatenateFails ==
    /\ ev_pc = "batch"
    /\ ev_i >= Len(Batches(ev_order))
    /\ eval_labels = <<>>
    /\ ev_pc' = "failed"
    /\ UNCHANGED <<val_labels, ev_model, ev_order, ev_i, eval_preds, eval_labels,
                   ev_printed>>
    /\ UNCHANGED <<notEv, notNli>>

----------------------------------------------------------------------------
(* Specifications: one per notebook *)

InitBM25 == BmStart /\ SemOff /\ HtmlOff /\ TrOff /\ ArtOff /\ NliOff

NextBM25 ==
    \/ ParseFeed
    \/ PreprocessDocs
    \/ ScoreDocs
    \/ ScoreDocsFails
    \/ SelectTop
    \/ PrintResults

SpecBM25 == InitBM25 /\ [][NextBM25]_vars

InitSemantic == SemStart /\ BmOff /\ HtmlOff /\ TrOff /\ ArtOff /\ NliOff

NextSemantic ==
    \/ FetchAndSplit
    \/ EncodeAndCompare
    \/ RankSentences
    \/ PrintSentences

SpecSemantic == InitSemantic /\ [][NextSemantic]_vars

InitTruncate == TrStart /\ BmOff /\ SemOff /\ HtmlOff /\ ArtOff /\ NliOff

NextTruncate ==
    \/ CallClassifier
    \/ CallSummarise

SpecTruncate == InitTruncate /\ [][NextTruncate]_vars

\* The article ranking notebook, for any time zone and any feed of at most
\* MaxEntries entries
Init ==
    /\ art_pc = "parse"
    /\ tz_offset \in TimeZones
    /\ served_feed \in NewsFeeds
    /\ ArtFresh
    /\ BmOff /\ SemOff /\ HtmlOff /\ TrOff /\ NliOff

Next ==
    \/ ParseNewsfeed
    \/ FilterEntries
    \/ FilterFails
    \/ FetchArticle
    \/ FetchArticleFails
    \/ LinkMissing
    \/ ExtractArticleText
    \/ ExtractArticleTextFails
    \/ ClassifyArticle
    \/ ClassifyArticleFails
    \/ RecordArticle
    \/ TitleMissing
    \/ SortArticles
    \/ DisplayArticle
    \/ SummariseFails
    \/ FinishDisplay

Spec == Init /\ [][Next]_vars

\* The article ranking notebook on a feed of at most MaxRecent entries, all
\* published a day ago
InitRecent ==
    /\ art_pc = "parse"
    /\ tz_offset \in TimeZones
    /\ served_feed \in RecentFeeds
    /\ ArtFresh
    /\ BmOff /\ SemOff /\ HtmlOff /\ TrOff /\ NliOff

SpecRecent == InitRecent /\ [][Next]_vars

InitDataset == DsStart /\ FitOff /\ EvOff /\ BmOff /\ SemOff /\ HtmlOff /\ TrOff /\ ArtOff

NextDataset ==
    \/ DatasetLen
    \/ DatasetGetItem

SpecDataset == InitDataset /\ [][NextDataset]_vars

InitTrain == FitStart /\ DsOff /\ EvOff /\ BmOff /\ SemOff /\ HtmlOff /\ TrOff /\ ArtOff

NextTrain ==
    \/ StartEpoch
    \/ ZeroGrad
    \/ Forward
    \/ ForwardFails
    \/ Backward
    \/ OptimStep
    \/ AppendLoss
    \/ EndEpoch
    \/ FinishTraining

SpecTrain == InitTrain /\ [][NextTrain]_vars

InitEval == EvStart /\ DsOff /\ FitOff /\ BmOff /\ SemOff /\ HtmlOff /\ TrOff /\ ArtOff

NextEval ==
    \/ StartEval
    \/ EvalBatch
    \/ EvalBatchFails
    \/ PrintAccuracy
    \/ ConcatenateFails

SpecEval == InitEval /\ [][NextEval]_vars

InitHtml == HtmlStart /\ BmOff /\ SemOff /\ TrOff /\ ArtOff /\ NliOff

NextHtml == ExtractText

SpecHtml == InitHtml /\ [][NextHtml]_vars

----------------------------------------------------------------------------
(* Claims about the BM25 notebook *)

\* the cells after the scoring cell
BmScored == bm_pc \in {"select", "print", "done"}
\* the cells after the selection cell
BmSelected == bm_pc \in {"print", "done"}

\* C1: the list get_bm25_scores returns is in non-increasing order of score:
\* at every pair of adjacent positions j, j+1 the score at j is at least the
\* score at j+1.
C1_ScoresNonIncreasing ==
    BmScored =>
        \A j \in 1..(Len(scores) - 1) : scores[j][2] >= scores[j + 1][2]

\* the scorer's array was not already in order, and has been sorted
C1_Witness ==
    /\ BmScored
    /\ Len(scores) >= 3
    /\ \E a, b \in 1..Len(raw_scores) : a < b /\ raw_scores[a] < raw_scores[b]

\* C2: the returned list holds exactly one (index, score) pair for each
\* position 0..len(tokenized_docs)-1, and the pair carrying index i carries
\* the score the scorer gave tokenized_docs[i].
C2_IndicesKeepTheirScores ==
    BmScored =>
        /\ Len(scores) = Len(tokenized_docs)
        /\ {scores[j][1] : j \in 1..Len(scores)} = 0..(Len(tokenized_docs) - 1)
        /\ \A j, k \in 1..Len(scores) : scores[j][1] = scores[k][1] => j = k
        /\ \A j \in 1..Len(scores) : scores[j][2] = raw_scores[scores[j][1] + 1]

\* the sort moved a pair away from its position
C2_Witness ==
    /\ BmScored
    /\ Len(scores) >= 3
    /\ \E j \in 1..Len(scores) : scores[j][1] # j - 1

\* C3: after the selection cell documents and final_scores hold the top
\* num_results entries of the ranking (all of it when it is shorter):
\* documents[j] is feed.entries[i] and final_scores[j] is s for the j-th
\* pair (i, s) of scores; final_scores is non-increasing; no document left
\* out scores strictly more than a selected one.
C3_TopResultsSelected ==
    BmSelected =>
        /\ Len(documents) = Min(bm_num_results, Len(scores))
        /\ Len(final_scores) = Len(documents)
        /\ \A j \in 1..Len(documents) :
               /\ documents[j] = feed_entries[scores[j][1] + 1]
               /\ final_scores[j] = scores[j][2]
        /\ \A j \in 1..(Len(final_scores) - 1) :
               final_scores[j] >= final_scores[j + 1]
        /\ \A i \in 1..Len(feed_entries) :
               feed_entries[i] \notin Range(documents) =>
                   \A j \in 1..Len(final_scores) : raw_scores[i] <= final_scores[j]

\* more documents than num_results, a document left out, and a ranking that
\* differs from the feed order
C3_Witness ==
    /\ BmSelected
    /\ Len(feed_entries) > bm_num_results
    /\ Len(documents) = bm_num_results
    /\ \E i \in 1..Len(feed_entries) : feed_entries[i] \notin Range(documents)
    /\ documents[1] # feed_entries[1]
    /\ final_scores[1] > final_scores[bm_num_results]

\* C14: the number of documents the header of the results names ("Searched
\* N documents in T seconds") is the number of documents that were tokenized
\* and scored, len(feed.entries) = len(tokenized_docs), whatever feed the
\* arXiv API returned (one with fewer entries than asked for included).
C14_PrintedCountIsCorpusSize ==
    bm_pc = "done" =>
        /\ Len(tokenized_docs) = Len(feed_entries)
        /\ bm_printed[1].searched = Len(feed_entries)

\* C14, the part that holds: every entry of the feed was tokenized and scored
C14_EveryEntryScored ==
    BmScored =>
        /\ Len(tokenized_docs) = Len(feed_entries)
        /\ Len(scores) = Len(feed_entries)

\* the preprocessing cell has run
BmPreprocessed == bm_pc \in {"score", "select", "print", "done", "failed"}

\* C15: after the preprocessing loop every token of every list of
\* tokenized_docs is purely alphabetic, is lower case and is no English
\* stop word.
C15_TokensClean ==
    BmPreprocessed =>
        \A i \in 1..Len(tokenized_docs) :
            \A j \in 1..Len(tokenized_docs[i]) :
                /\ isalpha(tokenized_docs[i][j])
                /\ lower(tokenized_docs[i][j]) = tokenized_docs[i][j]
                /\ tokenized_docs[i][j] \notin stop_words

\* an upper-case word was lower-cased and kept, while a hyphen, a word with
\* a digit and stop words in either case were left out
C15_Witness ==
    /\ BmPreprocessed
    /\ Len(feed_entries) >= 3
    /\ \E i \in 1..Len(feed_entries) :
           feed_entries[i].summary = <<"NLI", "the", "Model">>
               /\ tokenized_docs[i] = <<"nli", "model">>
    /\ \E i \in 1..Len(feed_entries) :
           feed_entries[i].summary = <<"BERT2", "nli", "Of">>
               /\ tokenized_docs[i] = <<"nli">>
    /\ \E i \in 1..Len(feed_entries) :
           feed_entries[i].summary = <<"The", "-">> /\ tokenized_docs[i] = <<>>

----------------------------------------------------------------------------
(* Claims about the semantic search notebook *)

\* the cells after the ranking cell
SemRanked == sem_pc \in {"print", "done"}

\* C6: after the ranking cell sentences and scores have the same length
\* min(k, n), k the configured num_results and n the number of fragments;
\* scores is non-increasing; scores[j] is the similarity of sentences[j]; the
\* selected fragments are distinct positions of input_text; no fragment left
\* out is strictly more similar than a selected one.
C6_BestSentencesSelected ==
    SemRanked =>
        /\ Len(sentences) = Min(sem_num_results, Len(input_text))
        /\ Len(sem_scores) = Len(sentences)
        /\ \A j \in 1..(Len(sem_scores) - 1) : sem_scores[j] >= sem_scores[j + 1]
        /\ \A j \in 1..Len(sentences) :
               \E i \in 1..Len(input_text) :
                   /\ i = sem_ranked[j] + 1
                   /\ sentences[j] = input_text[i]
                   /\ sem_scores[j] = results[i]
        /\ \A j, k \in 1..Len(sem_ranked) : sem_ranked[j] = sem_ranked[k] => j = k
        /\ \A i \in 1..Len(input_text) :
               (i - 1) \notin Range(sem_ranked) =>
                   \A j \in 1..Len(sem_scores) : results[i] <= sem_scores[j]

\* more fragments than num_results, so that some are left out, with
\* similarities that differ among the selected ones
C6_Witness ==
    /\ SemRanked
    /\ Len(input_text) > sem_num_results
    /\ Len(sentences) = sem_num_results
    /\ sem_scores[1] > sem_scores[sem_num_results]
    /\ \E i \in 1..Len(input_text) : (i - 1) \notin Range(sem_ranked)

\* fewer fragments than num_results: all of them are ranked
C6_WitnessShort ==
    /\ SemRanked
    /\ Len(input_text) = 3
    /\ Len(sentences) = 3
    /\ sem_scores[1] > sem_scores[3]

----------------------------------------------------------------------------
(* Claims about text_from_html *)

\* C7: text_from_html filters out HTML comments: the text of no comment of
\* the page occurs in the string it returns, wherever the comment stands.
C7_NoCommentText ==
    html_pc = "done" =>
        \A j \in 1..Len(html_page) :
            html_page[j].kind = "comment" =>
                ~Contains(html_text, Strip(html_page[j].text))

----------------------------------------------------------------------------
(* Claims about the article ranking notebook *)

\* the classification loop has run to its end
LoopCompleted ==
    \/ art_pc \in {"sort", "display", "done"}
    \/ art_pc = "failed" /\ art_error = "summarise"

\* the sorting cell has run
ArticlesSorted ==
    \/ art_pc \in {"display", "done"}
    \/ art_pc = "failed" /\ art_error = "summarise"

\* how often x occurs in the sequence s
Count(x, s) == Cardinality({j \in 1..Len(s) : s[j] = x})

\* C4: sorted_articles is a permutation of articles (the same records with
\* the same multiplicity) in non-increasing order of relevancy.
C4_SortedPermutation ==
    ArticlesSorted =>
        /\ Len(sorted_articles) = Len(articles)
        /\ \A a \in Range(articles) \cup Range(sorted_articles) :
               Count(a, sorted_articles) = Count(a, articles)
        /\ \A j \in 1..(Len(sorted_articles) - 1) :
               sorted_articles[j].relevancy >= sorted_articles[j + 1].relevancy

\* the sort had something to do: four records or more, not in order before
C4_Witness ==
    /\ ArticlesSorted
    /\ Len(articles) >= 4
    /\ sorted_articles # articles
    /\ \E j, k \in 1..Len(articles) : j < k /\ articles[j].relevancy < articles[k].relevancy

\* the summarise calls made so far
SummariseCalls ==
    LET is(c) == c.call = "summarise"
    IN  SelectSeq(ext_calls, is)

\* C5: the display loop shows the first min(number_of_articles,
\* len(sorted_articles)) records of sorted_articles, in ranking order, each
\* once; summarise is called once for each record displayed, on that
\* record's text, and for no other record.
C5_TopArticlesDisplayed ==
    art_pc \in {"display", "done"} =>
        /\ Len(displayed) <= Min(number_of_articles, Len(sorted_articles))
        /\ art_pc = "done" =>
               Len(displayed) = Min(number_of_articles, Len(sorted_articles))
        /\ \A j \in 1..Len(displayed) :
               /\ displayed[j].title = sorted_articles[j].title
               /\ displayed[j].link = sorted_articles[j].link
               /\ displayed[j].score = 100 * sorted_articles[j].relevancy
               /\ displayed[j].summary = [summary_of |-> SummariseCalls[j].arg]
        /\ Len(SummariseCalls) = Len(displayed)
        /\ \A j \in 1..Len(SummariseCalls) :
               /\ SummariseCalls[j].entry = sorted_articles[j].link
               /\ SummariseCalls[j].arg = Take(sorted_articles[j].src_text, 1024)

\* more records than number_of_articles: the loop ended with the top four
\* displayed and the rest neither summarised nor displayed
C5_Witness ==
    /\ art_pc = "done"
    /\ Len(sorted_articles) > number_of_articles
    /\ Len(displayed) = number_of_articles
    /\ sorted_articles # articles

\* C8: classifier and summarise hand the pipeline the first 1024 characters
\* of the source text: a prefix of source_text of length
\* min(len(source_text), 1024), never longer than 1024, and source_text
\* itself when that has at most 1024 characters.
C8_InputIsPrefix ==
    tr_pc \in {"classifier", "summarise"} =>
        /\ Len(tr_model_input) = Min(Len(tr_source_text), 1024)
        /\ Len(tr_model_input) <= 1024
        /\ \A j \in 1..Len(tr_model_input) : tr_model_input[j] = tr_source_text[j]
        /\ Len(tr_source_text) <= 1024 => tr_model_input = tr_source_text

\* a source text longer than the limit has been cut
C8_Witness ==
    /\ tr_pc = "classifier"
    /\ Len(tr_source_text) > 1024
    /\ Len(tr_model_input) = 1024

\* the age of entry i of the feed when the filter tested it: the time of the
\* test less the instant (UTC) the entry was published
Age(i) == checked_at[i] - newsfeed[i].published_parsed

CalledFor(i, name) ==
    /\ Has(newsfeed[i], "link")
    /\ \E j \in 1..Len(ext_calls) :
           ext_calls[j].call = name /\ ext_calls[j].entry = newsfeed[i].link

Recorded(i) ==
    /\ Has(newsfeed[i], "link")
    /\ \E j \in 1..Len(articles) : articles[j].link = newsfeed[i].link

\* C9: an entry of the feed is fetched, classified and recorded if and only
\* if it was published in the last `days` days, that is if the current time
\* less its publication time is below 86400*days seconds; an entry that is
\* 86400*days seconds old or older is never fetched, never classified and
\* never in articles.
C9_ProcessedIffRecent ==
    /\ \A i \in 1..Len(checked_at) :
           Age(i) >= 86400 * days =>
               /\ ~CalledFor(i, "requests.get")
               /\ ~CalledFor(i, "classifier")
               /\ ~Recorded(i)
    /\ LoopCompleted =>
           \A i \in 1..Len(checked_at) :
               Age(i) < 86400 * days =>
                   /\ CalledFor(i, "requests.get")
                   /\ CalledFor(i, "classifier")
                   /\ Recorded(i)

\* C9 in a kernel whose local time is UTC: there the claim holds
C9_HoldsInUTC == tz_offset = 0 => C9_ProcessedIffRecent

\* the positions of the feed whose entries pass the test of the filter
Passing ==
    LET pass(i) == checked_at[i] - (newsfeed[i].published_parsed - tz_offset)
                       < 86400 * days
    IN  SelectSeq([i \in 1..Len(checked_at) |-> i], pass)

\* C10: when the classification loop completes, articles holds exactly one
\* record for each entry of the feed that passed the recency filter, in
\* feed order: record k is made from the k-th passing entry, no entry has
\* two records, no two records come from one entry.
C10_OneRecordPerEntry ==
    LoopCompleted =>
        /\ Len(articles) = Len(Passing)
        /\ \A k \in 1..Len(articles) :
               /\ articles[k].title = newsfeed[Passing[k]].title
               /\ articles[k].link = newsfeed[Passing[k]].link
               /\ articles[k].published = newsfeed[Passing[k]].published_parsed
        /\ \A j, k \in 1..Len(articles) :
               articles[j].link = articles[k].link => j = k

\* a feed of which some entries pass and one does not, standing before a
\* passing one
C10_Witness ==
    /\ LoopCompleted
    /\ Len(articles) >= 2
    /\ Len(articles) < Len(newsfeed)
    /\ articles[1].link # newsfeed[1].link


\* the failures of the classification cell: a missing attribute of an entry,
\* or a call made for an entry that raised
LoopErrors ==
    {"published_parsed", "link", "requests.get", "text_from_html", "classifier",
     "title"}

\* once a failure has been raised in the classification cell, the cell has
\* ended and nothing of the later cells has run
C11_CellEnded ==
    art_error \in LoopErrors =>
        /\ art_pc = "failed"
        /\ sorted_articles = <<>>
        /\ displayed = <<>>
        \* every call made was made for the failing entry or an earlier one
        /\ \A j \in 1..Len(ext_calls) :
               \E k \in 1..loop_i :
                   Has(entries[k], "link") /\ ext_calls[j].entry = entries[k].link
        \* no call was made twice for an entry
        /\ \A k \in 1..loop_i :
               Has(entries[k], "link") =>
                   \A name \in {"requests.get", "classifier"} :
                       Cardinality({j \in 1..Len(ext_calls) :
                                       /\ ext_calls[j].call = name
                                       /\ ext_calls[j].entry = entries[k].link}) <= 1

\* C11: a failure of a call made for an entry of the classification loop
\* (the HTTP GET, the text extraction, the classifier), or a missing
\* attribute of the entry, ends the cell: the call is not made again, the
\* entry is not skipped, no later entry is fetched or classified, and no
\* step of the notebook follows the failure.
C11_FailureEndsCell ==
    /\ [](C11_CellEnded)
    /\ [][art_error \notin LoopErrors]_vars

\* the classifier raised for the second of three entries, the first entry
\* having been fetched, classified and recorded
C11_Witness ==
    /\ art_pc = "failed"
    /\ art_error = "classifier"
    /\ loop_i = 2
    /\ Len(entries) >= 3
    /\ Len(articles) = 1
    /\ Len(ext_calls) = 4


\* the positions in the log of the calls `name` made for filtered entry k
CallPositions(k, name) ==
    {j \in 1..Len(ext_calls) :
        /\ ext_calls[j].call = name
        /\ Has(entries[k], "link")
        /\ ext_calls[j].entry = entries[k].link}

\* when the HTTP GET for filtered entry k (k > 1) has started, the classifier
\* call for entry k-1 is behind it in the log and the record of entry k-1
\* is in articles
GetFollowsRecord ==
    \A k \in 2..Len(entries) :
        \A j \in CallPositions(k, "requests.get") :
            /\ \E c \in CallPositions(k - 1, "classifier") : c < j
            /\ Len(articles) >= k - 1
            /\ articles[k - 1].link = entries[k - 1].link

\* C12: the notebook runs one statement at a time, each external call
\* returning (or raising) before the next statement starts: no step makes
\* more than one external call, and for consecutive filtered entries e1, e2
\* the HTTP GET for e2 starts only after the classifier call for e1 has
\* returned and e1's record has been appended to articles.
C12_OneCallAtATime ==
    /\ [](GetFollowsRecord)
    /\ [][Len(ext_calls') <= Len(ext_calls) + 1]_vars

\* the page of the second entry has just been fetched
C12_Witness ==
    /\ art_pc = "extract"
    /\ loop_i = 2
    /\ Len(articles) = 1
    /\ ext_calls[Len(ext_calls)].call = "requests.get"
    /\ ext_calls[Len(ext_calls)].entry = entries[2].link


\* how many calls `name` the log holds for the entry with this link
CallsFor(link, name) ==
    Cardinality({j \in 1..Len(ext_calls) :
                    ext_calls[j].call = name /\ ext_calls[j].entry = link})

\* every record of articles is the only record of its entry, its text was
\* fetched by one HTTP GET and it was scored by one classifier call; what
\* the sorting cell and the display cell hold are those records, unchanged
RecordsMadeOnce ==
    /\ \A j, k \in 1..Len(articles) : articles[j].link = articles[k].link => j = k
    /\ \A k \in 1..Len(articles) :
           /\ CallsFor(articles[k].link, "requests.get") = 1
           /\ CallsFor(articles[k].link, "classifier") = 1
    /\ \A j \in 1..Len(sorted_articles) : sorted_articles[j] \in Range(articles)
    /\ \A j \in 1..Len(displayed) :
           \E k \in 1..Len(articles) :
               /\ displayed[j].link = articles[k].link
               /\ displayed[j].title = articles[k].title
               /\ displayed[j].score = 100 * articles[k].relevancy

ArticleFields == {"title", "link", "src_text", "published", "relevancy"}

\* C19: at every point of the classification loop, the state a failure
\* leaves behind included, every record in articles has all of title, link,
\* src_text, published and relevancy; when the loop fails at the k-th
\* filtered entry, articles holds the records of the first k-1 filtered
\* entries, in order, and nothing for the k-th.
C19_NoPartialRecords ==
    /\ \A j \in 1..Len(articles) : DOMAIN articles[j] = ArticleFields
    /\ art_error = "published_parsed" => articles = <<>>
    /\ art_error \in LoopErrors \ {"published_parsed"} =>
           /\ Len(articles) = loop_i - 1
           /\ \A j \in 1..Len(articles) :
                  /\ articles[j].title = entries[j].title
                  /\ articles[j].link = entries[j].link
                  /\ articles[j].published = entries[j].published_parsed

\* the second entry has no title: its text was fetched and classified, the
\* dict made for it is empty and is not in articles
C19_Witness ==
    /\ art_pc = "failed"
    /\ art_error = "title"
    /\ loop_i = 2
    /\ article = <<>>
    /\ Len(articles) = 1
    /\ Len(ext_calls) = 4


----------------------------------------------------------------------------
(* Claims about the NLI fine-tuning notebook *)

\* C16: len(dataset) is the number of encoded examples,
\* len(encodings.input_ids); for every idx in 0..len(dataset)-1 dataset[idx]
\* is a mapping whose keys are the keys of encodings and 'labels', with
\* item[key] the tensor of encodings[key][idx] and item['labels'] the tensor
\* of labels[idx].
C16_DatasetItems ==
    /\ ds_pc \in {"ready", "got"} => ds_len = Len(ds_encodings.input_ids)
    /\ ds_pc = "got" =>
           /\ ds_idx \in 0..(ds_len - 1)
           /\ DOMAIN ds_item = (DOMAIN ds_encodings) \cup {"labels"}
           /\ \A key \in DOMAIN ds_encodings :
                  ds_item[key].tensor = ds_encodings[key][ds_idx + 1]
           /\ ds_item.labels.tensor = ds_labels[ds_idx + 1]

\* the last of three examples, whose row and label differ from the first's
C16_Witness ==
    /\ ds_pc = "got"
    /\ ds_len = 3
    /\ ds_idx = 2
    /\ ds_item.labels.tensor # ds_labels[1]
    /\ ds_item.input_ids.tensor # ds_encodings.input_ids[1]


\* the examples the loop body has finished in this epoch, in order
RECURSIVE Flatten(_)
Flatten(batches) ==
    IF batches = <<>> THEN <<>> ELSE Head(batches) \o Flatten(Tail(batches))

\* an epoch's inner loop has run to its end
EpochThrough ==
    \/ fit_pc \in {"epoch", "done"} /\ fit_epochs_done > 0
    \/ fit_pc = "batch" /\ Len(fit_seen) = LoaderLen(fit_n)

\* the body has called optim.step() for the batch it is at, and is not yet
\* through with it
SteppedForBatch == fit_pc = "append"

\* C17: the training cell runs epochs = 3 epochs; in each epoch every batch
\* of train_loader is processed once (every training example once, in
\* len(train_loader) batches); for each batch the body does zero_grad,
\* forward pass, backward pass, optimizer step, loss appended, in this
\* order, with one optimizer step; in all epochs * len(train_loader)
\* optimizer steps are made.
C17_TrainingLoop ==
    /\ fit_steps = Take(BatchSteps, Len(fit_steps))
    /\ fit_pc # "off" =>
           optim_steps = fit_epochs_done * LoaderLen(fit_n)
                            + (IF fit_pc \in {"epoch", "done"} THEN 0 ELSE Len(fit_seen))
                            + (IF SteppedForBatch THEN 1 ELSE 0)
    /\ \A e \in 0..(fit_n - 1) : Count(e, Flatten(fit_seen)) <= 1
    /\ EpochThrough =>
           /\ Len(fit_seen) = LoaderLen(fit_n)
           /\ \A e \in 0..(fit_n - 1) : Count(e, Flatten(fit_seen)) = 1
           /\ Len(all_losses) = LoaderLen(fit_n)
    /\ fit_pc = "done" =>
           /\ fit_epochs_done = epochs
           /\ Len(fit_printed) = epochs
           /\ optim_steps = epochs * LoaderLen(fit_n)

\* three epochs of two batches, the second batch not full: six optimizer steps
C17_Witness ==
    /\ fit_pc = "done"
    /\ fit_n = 3
    /\ optim_steps = 6
    /\ Len(fit_seen) = 2
    /\ Len(fit_seen[2]) = 1


\* the validation examples the model classifies as they are labelled
CorrectExamples == {e \in 1..Len(val_labels) : ev_model[e] = val_labels[e]}

\* C18: the validation accuracy is computed over every validation example
\* once, each prediction compared with the label of the same example:
\* position p of the concatenated predictions and position p of the
\* concatenated labels both belong to the p-th example of the order the
\* shuffled loader drew, whatever that order is, and the accuracy is the
\* number of positions where prediction and label are equal divided by the
\* number of validation examples.
C18_AccuracyOverAlignedPairs ==
    /\ Len(concatenate(eval_preds)) = Len(concatenate(eval_labels))
    /\ Len(concatenate(eval_preds)) <= Len(ev_order)
    /\ \A p \in 1..Len(concatenate(eval_preds)) :
           /\ concatenate(eval_preds)[p] = ev_model[ev_order[p] + 1]
           /\ concatenate(eval_labels)[p] = val_labels[ev_order[p] + 1]
    /\ ev_pc = "done" =>
           /\ Len(concatenate(eval_preds)) = Len(val_labels)
           /\ \A e \in 1..Len(val_labels) : Count(e - 1, ev_order) = 1
           /\ ev_printed.accuracy = <<Cardinality(CorrectExamples), Len(val_labels)>>

\* three examples evaluated in another order than the dataset's, in two
\* batches; the model is right about some and wrong about others
C18_Witness ==
    /\ ev_pc = "done"
    /\ Len(val_labels) = 3
    /\ ev_order = <<2, 0, 1>>
    /\ Len(eval_preds) = 2
    /\ val_labels = <<0, 1, 2>>
    /\ ev_printed.accuracy = <<1, 3>>
    /\ ev_printed.shown = 33

====
